---- MODULE Spec2Model ----
(***************************************************************************)
(* Model of the PESA pallet (pallets/pesa/src/lib.rs): a phone-number      *)
(* alias registry kept in two storage maps, PhoneLookUp (account ->         *)
(* UserInfo) and AccountLookUp (phone -> UserInfo).  Every dispatchable is  *)
(* one atomic transition, as extrinsics are applied one at a time.          *)
(***************************************************************************)
EXTENDS Integers, Sequences, FiniteSets, TLC

(* ------------------------------ bounds --------------------------------- *)
\* longest phone number a caller submits
MaxPhoneLen == 3

(* ----------------------- runtime configuration ------------------------- *)
\* T::NumberMinLength::get(), inclusive
NumberMinLength == 1
\* T::NumberMaxLength::get(), inclusive
NumberMaxLength == 2
\* T::Transfer::get(): transfers are switched off
Transfer == FALSE
\* u32::MAX is U32Half * U32Half - 1, beyond the integers TLC evaluates
U32Half == 65536

(* ------------------------------ values --------------------------------- *)
\* T::AccountId: two accounts, a caller and one other account
Accounts == {1, 2}
\* an origin that is not Signed(_); ensure_signed rejects it
Unsigned == 0
\* T::Origin as far as ensure_signed distinguishes it
Origins == {Unsigned} \cup Accounts
\* the u8 values a phone number is made of
Digits == {5}
\* Phone(Vec<u8>)
Phones == UNION {[1..n -> Digits] : n \in 0..MaxPhoneLen}
\* the Ok(()) of a DispatchResult
Ok == "Ok"
\* no event deposited
NoEvent == << >>
\* StorageMap::insert
Insert(m, k, v) == [x \in (DOMAIN m) \cup {k} |-> IF x = k THEN v ELSE m[x]]
\* StorageMap::remove
Remove(m, k) == [x \in (DOMAIN m) \ {k} |-> m[x]]
\* an empty storage map
EmptyMap == << >>

VARIABLES PhoneLookUp, AccountLookUp, last

vars == <<PhoneLookUp, AccountLookUp, last>>

(* ------------------------ pieces of the handlers ----------------------- *)
\* what a dispatchable returns together with the storage it leaves
Outcome(pl, al, result, event) ==
    [pl |-> pl, al |-> al, result |-> result, event |-> event]

\* get_usize_safe: None is modelled as -1
get_usize_safe(v) == IF (v \div U32Half) >= U32Half THEN -1 ELSE v

\* the two length ensure! of register
LengthCheckNoMax(phone_size) ==
    IF ~(phone_size >= NumberMinLength) THEN "NumberTooShort" ELSE Ok
LengthCheckStrictMin(phone_size) ==
    IF ~(phone_size > NumberMinLength) THEN "NumberTooShort"
    ELSE IF ~(phone_size <= NumberMaxLength) THEN "NumberTooLong"
    ELSE Ok
LengthCheck(phone_size) ==
    IF ~(phone_size >= NumberMinLength) THEN "NumberTooShort"
    ELSE IF ~(phone_size <= NumberMaxLength) THEN "NumberTooLong"
    ELSE Ok

\* if new_account { ensure!(!contains_key ...) x 2 }
NewAccountCheckNoPhone(pl, al, account, phone_number) ==
    IF account \in DOMAIN pl THEN "NumberAlreadyExists" ELSE Ok
NewAccountCheck(pl, al, account, phone_number) ==
    IF account \in DOMAIN pl THEN "NumberAlreadyExists"
    ELSE IF phone_number \in DOMAIN al THEN "NumberAlreadyExists"
    ELSE Ok

\* if !new_account { ... }, without the ensure! on AccountLookUp
ExistingAccountCheckNoPhone(pl, al, account, phone_number) ==
    IF ~(account \in DOMAIN pl) THEN "NumberDoesNotExist" ELSE Ok
\* if !new_account { ensure!(contains_key ...) x 2 }
ExistingAccountCheck(pl, al, account, phone_number) ==
    IF ~(account \in DOMAIN pl) THEN "NumberDoesNotExist"
    ELSE IF ~(phone_number \in DOMAIN al) THEN "NumberDoesNotExist"
    ELSE Ok

\* let user_info = UserInfo { ... }
NewUserInfoPrivate(account, public, phone_number) ==
    [owner |-> account, public |-> FALSE, transferable |-> FALSE,
     phone |-> phone_number]
NewUserInfoTransferable(account, public, phone_number) ==
    [owner |-> account, public |-> public, transferable |-> TRUE,
     phone |-> phone_number]
NewUserInfo(account, public, phone_number) ==
    [owner |-> account, public |-> public, transferable |-> FALSE,
     phone |-> phone_number]

(* --------------------------- the dispatchables ------------------------- *)
\* register(origin, phone_number, public, new_account)
register_fn(pl, al, origin, phone_number, public, new_account) ==
    IF origin = Unsigned THEN Outcome(pl, al, "BadOrigin", NoEvent) ELSE
    LET account    == origin
        phone_size == get_usize_safe(Len(phone_number))
        user_info  == NewUserInfo(account, public, phone_number)
    IN  IF phone_size = -1 THEN Outcome(pl, al, "NumberOverflow", NoEvent)
        ELSE IF LengthCheck(phone_size) # Ok
          THEN Outcome(pl, al, LengthCheck(phone_size), NoEvent)
        ELSE IF new_account /\ NewAccountCheck(pl, al, account, phone_number) # Ok
          THEN Outcome(pl, al, NewAccountCheck(pl, al, account, phone_number), NoEvent)
        ELSE IF ~new_account /\ ExistingAccountCheck(pl, al, account, phone_number) # Ok
          THEN Outcome(pl, al, ExistingAccountCheck(pl, al, account, phone_number), NoEvent)
        ELSE Outcome(Insert(pl, account, user_info),
                     Insert(al, phone_number, user_info),
                     Ok, <<"SuccessfullRegsitration">>)

\* look_up(origin, phone_number), taking the record out of the map it reads
look_up_take(pl, al, origin, phone_number) ==
    IF origin = Unsigned THEN Outcome(pl, al, "BadOrigin", NoEvent)
    ELSE IF ~(phone_number \in DOMAIN al)
      THEN Outcome(pl, al, "LookupFailure", NoEvent)
    ELSE LET user == al[phone_number]
         IN  IF ~user.public
               THEN Outcome(pl, Remove(al, phone_number), "NumberNotPublic",
                            NoEvent)
             ELSE Outcome(pl, Remove(al, phone_number), Ok,
                          <<"AccountFound", user.owner>>)
\* look_up(origin, phone_number)
look_up_fn(pl, al, origin, phone_number) ==
    IF origin = Unsigned THEN Outcome(pl, al, "BadOrigin", NoEvent)
    ELSE IF ~(phone_number \in DOMAIN al)
      THEN Outcome(pl, al, "LookupFailure", NoEvent)
    ELSE LET user == al[phone_number]
         IN  IF ~user.public THEN Outcome(pl, al, "NumberNotPublic", NoEvent)
             ELSE Outcome(pl, al, Ok, <<"AccountFound", user.owner>>)

\* reverse_look_up(origin, check_account)
reverse_look_up_fn(pl, al, origin, check_account) ==
    IF origin = Unsigned THEN Outcome(pl, al, "BadOrigin", NoEvent)
    ELSE IF ~(check_account \in DOMAIN pl)
      THEN Outcome(pl, al, "LookupFailure", NoEvent)
    ELSE LET user == pl[check_account]
         IN  IF ~user.public THEN Outcome(pl, al, "NumberNotPublic", NoEvent)
             ELSE Outcome(pl, al, Ok, <<"LookUpSuccess", user.phone>>)

\* account_data(origin)
account_data_fn(pl, al, origin) ==
    IF origin = Unsigned THEN Outcome(pl, al, "BadOrigin", NoEvent)
    ELSE IF ~(origin \in DOMAIN pl)
      THEN Outcome(pl, al, "LookupFailure", NoEvent)
    ELSE LET user == pl[origin]
         IN  Outcome(pl, al, Ok,
                     <<"AccountData", origin, user.public, user.transferable,
                       user.phone>>)

\* allow_tranfer(origin), taking the record to update from AccountLookUp
allow_tranfer_from_phone(pl, al, origin) ==
    IF origin = Unsigned THEN Outcome(pl, al, "BadOrigin", NoEvent)
    ELSE IF ~(origin \in DOMAIN pl)
      THEN Outcome(pl, al, "AccountDoesNotExist", NoEvent)
    ELSE IF ~(pl[origin].phone \in DOMAIN al)
      THEN Outcome(pl, al, "NumberDoesNotExist", NoEvent)
    ELSE LET user == [al[pl[origin].phone] EXCEPT !.transferable = TRUE]
         IN  Outcome(Insert(pl, origin, user),
                     Insert(al, user.phone, user),
                     Ok, <<"TransferableSet">>)
\* allow_tranfer(origin), with the first insert moved before the last ensure!
allow_tranfer_early_write(pl, al, origin) ==
    IF origin = Unsigned THEN Outcome(pl, al, "BadOrigin", NoEvent)
    ELSE IF ~(origin \in DOMAIN pl)
      THEN Outcome(pl, al, "AccountDoesNotExist", NoEvent)
    ELSE LET user == [pl[origin] EXCEPT !.transferable = TRUE]
         IN  IF ~(user.phone \in DOMAIN al)
               THEN Outcome(Insert(pl, origin, user), al,
                            "NumberDoesNotExist", NoEvent)
             ELSE Outcome(Insert(pl, origin, user),
                          Insert(al, user.phone, user),
                          Ok, <<"TransferableSet">>)
\* allow_tranfer(origin)
allow_tranfer_fn(pl, al, origin) ==
    IF origin = Unsigned THEN Outcome(pl, al, "BadOrigin", NoEvent)
    ELSE IF ~(origin \in DOMAIN pl)
      THEN Outcome(pl, al, "AccountDoesNotExist", NoEvent)
    ELSE LET user == [pl[origin] EXCEPT !.transferable = TRUE]
         IN  IF ~(user.phone \in DOMAIN al)
               THEN Outcome(pl, al, "NumberDoesNotExist", NoEvent)
             ELSE Outcome(Insert(pl, origin, user),
                          Insert(al, user.phone, user),
                          Ok, <<"TransferableSet">>)

\* tranfer(origin, tranfer_account), with the check the todo asks for
tranfer_checked(pl, al, origin, tranfer_account) ==
    IF origin = Unsigned THEN Outcome(pl, al, "BadOrigin", NoEvent)
    ELSE IF ~(tranfer_account \in DOMAIN pl)
      THEN Outcome(pl, al, "InvalidTransfer", NoEvent)
    ELSE IF ~pl[tranfer_account].transferable
      THEN Outcome(pl, al, "InvalidTransfer", NoEvent)
    ELSE Outcome(pl, al, Ok, NoEvent)
\* tranfer(origin, tranfer_account): the body is a todo
tranfer_fn(pl, al, origin, tranfer_account) ==
    IF origin = Unsigned THEN Outcome(pl, al, "BadOrigin", NoEvent)
    ELSE Outcome(pl, al, Ok, NoEvent)

\* clear_data(origin), without the remove of the AccountLookUp entry
clear_data_keep_phone(pl, al, origin) ==
    IF origin = Unsigned THEN Outcome(pl, al, "BadOrigin", NoEvent)
    ELSE IF ~(origin \in DOMAIN pl)
      THEN Outcome(pl, al, "IncorrectInformation", NoEvent)
    ELSE LET user == pl[origin]
         IN  IF ~(user.phone \in DOMAIN al)
               THEN Outcome(pl, al, "IncorrectInformation", NoEvent)
             ELSE Outcome(Remove(pl, origin), al, Ok, <<"NumberRemoved">>)
\* clear_data(origin)
clear_data_fn(pl, al, origin) ==
    IF origin = Unsigned THEN Outcome(pl, al, "BadOrigin", NoEvent)
    ELSE IF ~(origin \in DOMAIN pl)
      THEN Outcome(pl, al, "IncorrectInformation", NoEvent)
    ELSE LET user == pl[origin]
         IN  IF ~(user.phone \in DOMAIN al)
               THEN Outcome(pl, al, "IncorrectInformation", NoEvent)
             ELSE Outcome(Remove(pl, origin), Remove(al, user.phone),
                          Ok, <<"NumberRemoved">>)

(* ------------------------------ the machine ---------------------------- *)
\* the call just dispatched and what it returned
Call(op, origin, phone, public, new_account, account, out) ==
    [op |-> op, origin |-> origin, phone |-> phone, public |-> public,
     new_account |-> new_account, account |-> account,
     result |-> out.result, event |-> out.event]

Init ==
    /\ PhoneLookUp = EmptyMap
    /\ AccountLookUp = EmptyMap
    /\ last = [op |-> "genesis", origin |-> Unsigned, phone |-> << >>,
               public |-> FALSE, new_account |-> FALSE, account |-> Unsigned,
               result |-> Ok, event |-> NoEvent]

register ==
    \E origin \in Origins, phone_number \in Phones,
       public \in BOOLEAN, new_account \in BOOLEAN :
        LET out == register_fn(PhoneLookUp, AccountLookUp, origin, phone_number,
                       public, new_account)
        IN  /\ PhoneLookUp' = out.pl
            /\ AccountLookUp' = out.al
            /\ last' = Call("register", 
                     origin, phone_number, public, new_account, Unsigned, out)

look_up ==
    \E origin \in Origins, phone_number \in Phones :
        LET out == look_up_fn(PhoneLookUp, AccountLookUp, origin, phone_number)
        IN  /\ PhoneLookUp' = out.pl
            /\ AccountLookUp' = out.al
            /\ last' = Call("look_up", 
                     origin, phone_number, FALSE, FALSE, Unsigned, out)

reverse_look_up ==
    \E origin \in Origins, check_account \in Accounts :
        LET out == reverse_look_up_fn(PhoneLookUp, AccountLookUp, origin,
                       check_account)
        IN  /\ PhoneLookUp' = out.pl
            /\ AccountLookUp' = out.al
            /\ last' = Call("reverse_look_up", 
                     origin, << >>, FALSE, FALSE, check_account, out)

account_data ==
    \E origin \in Origins :
        LET out == account_data_fn(PhoneLookUp, AccountLookUp, origin)
        IN  /\ PhoneLookUp' = out.pl
            /\ AccountLookUp' = out.al
            /\ last' = Call("account_data", 
                     origin, << >>, FALSE, FALSE, Unsigned, out)

allow_tranfer ==
    \E origin \in Origins :
        LET out == allow_tranfer_fn(PhoneLookUp, AccountLookUp, origin)
        IN  /\ PhoneLookUp' = out.pl
            /\ AccountLookUp' = out.al
            /\ last' = Call("allow_tranfer", 
                     origin, << >>, FALSE, FALSE, Unsigned, out)

tranfer ==
    \E origin \in Origins, tranfer_account \in Accounts :
        LET out == tranfer_fn(PhoneLookUp, AccountLookUp, origin, tranfer_account)
        IN  /\ PhoneLookUp' = out.pl
            /\ AccountLookUp' = out.al
            /\ last' = Call("tranfer", 
                     origin, << >>, FALSE, FALSE, tranfer_account, out)

clear_data ==
    \E origin \in Origins :
        LET out == clear_data_fn(PhoneLookUp, AccountLookUp, origin)
        IN  /\ PhoneLookUp' = out.pl
            /\ AccountLookUp' = out.al
            /\ last' = Call("clear_data", 
                     origin, << >>, FALSE, FALSE, Unsigned, out)

Next ==
    \/ register
    \/ look_up
    \/ reverse_look_up
    \/ account_data
    \/ allow_tranfer
    \/ tranfer
    \/ clear_data

Spec == Init /\ [][Next]_vars

(* ------------------------------- typing -------------------------------- *)
UserInfo == [owner : Accounts, public : BOOLEAN, transferable : BOOLEAN,
             phone : Phones]

TypeOK ==
    /\ DOMAIN PhoneLookUp \subseteq Accounts
    /\ DOMAIN AccountLookUp \subseteq Phones
    /\ \A k \in DOMAIN PhoneLookUp : PhoneLookUp[k] \in UserInfo
    /\ \A p \in DOMAIN AccountLookUp : AccountLookUp[p] \in UserInfo

(* ------------------------------ shorthands ----------------------------- *)
\* the call recorded in c was made by a signed account
Signed(c) == c.origin \in Accounts
\* the length of p is within the configured inclusive range
InRange(p) == Len(p) >= NumberMinLength /\ Len(p) <= NumberMaxLength
\* every record held by either map
StoredRecords ==
    {PhoneLookUp[k] : k \in DOMAIN PhoneLookUp}
        \cup {AccountLookUp[p] : p \in DOMAIN AccountLookUp}

(* ------------------------------- claims -------------------------------- *)
\* C1: duality (I1): every PhoneLookUp entry has an identical record in
\* AccountLookUp under its phone, and every AccountLookUp entry has an
\* identical record in PhoneLookUp under its owner.
C1_Duality ==
    /\ \A k \in DOMAIN PhoneLookUp :
          /\ PhoneLookUp[k].phone \in DOMAIN AccountLookUp
          /\ AccountLookUp[PhoneLookUp[k].phone] = PhoneLookUp[k]
    /\ \A p \in DOMAIN AccountLookUp :
          /\ AccountLookUp[p].owner \in DOMAIN PhoneLookUp
          /\ PhoneLookUp[AccountLookUp[p].owner] = AccountLookUp[p]

\* C2: ownership-gated mutation: a call by account A never changes or removes
\* an AccountLookUp entry whose owner is another account B, nor B's
\* PhoneLookUp entry.
C2_OwnershipGated ==
    [][\A B \in Accounts :
          (Signed(last') /\ last'.origin # B) =>
             /\ \A p \in DOMAIN AccountLookUp :
                   AccountLookUp[p].owner = B =>
                      /\ p \in DOMAIN AccountLookUp'
                      /\ AccountLookUp'[p] = AccountLookUp[p]
             /\ B \in DOMAIN PhoneLookUp =>
                   /\ B \in DOMAIN PhoneLookUp'
                   /\ PhoneLookUp'[B] = PhoneLookUp[B]]_vars

\* C3: atomicity on failure: a call that returns an error leaves both maps
\* exactly as they were before the call.
C3_AtomicOnFailure ==
    [][last'.result # Ok =>
          /\ PhoneLookUp' = PhoneLookUp
          /\ AccountLookUp' = AccountLookUp]_vars

\* C3 witness: allow_tranfer failed at its last ensure!, with the caller's
\* record present in PhoneLookUp and its phone missing from AccountLookUp.
C3_Witness ==
    /\ last.op = "allow_tranfer"
    /\ last.result = "NumberDoesNotExist"
    /\ last.origin \in DOMAIN PhoneLookUp
    /\ ~PhoneLookUp[last.origin].transferable

\* C4: uniqueness (I2): no two PhoneLookUp entries carry the same phone and
\* no two AccountLookUp entries carry the same owner.
C4_Uniqueness ==
    /\ \A a, b \in DOMAIN PhoneLookUp :
          a # b => PhoneLookUp[a].phone # PhoneLookUp[b].phone
    /\ \A p, q \in DOMAIN AccountLookUp :
          p # q => AccountLookUp[p].owner # AccountLookUp[q].owner

\* C5: right after a successful register(A, X, _, new_account = true), no
\* PhoneLookUp entry of another account has phone X and no AccountLookUp
\* entry under another phone has owner A.
C5_UniqueAfterNewRegistration ==
    (last.op = "register" /\ last.result = Ok /\ last.new_account) =>
       /\ \A k \in (DOMAIN PhoneLookUp) \ {last.origin} :
             PhoneLookUp[k].phone # last.phone
       /\ \A p \in (DOMAIN AccountLookUp) \ {last.phone} :
             AccountLookUp[p].owner # last.origin

\* C6: duplicate rejection: register with new_account = true and a length in
\* range returns NumberAlreadyExists whenever PhoneLookUp has the caller or
\* AccountLookUp has the phone; in particular a register(B, X, new) that
\* directly follows a successful register(A, X, new) returns it.
C6_DuplicateRejection ==
    [][/\ (/\ last'.op = "register" /\ Signed(last') /\ last'.new_account
           /\ InRange(last'.phone)
           /\ \/ last'.origin \in DOMAIN PhoneLookUp
              \/ last'.phone \in DOMAIN AccountLookUp)
          => last'.result = "NumberAlreadyExists"
       /\ (/\ last.op = "register" /\ last.result = Ok /\ last.new_account
           /\ last'.op = "register" /\ Signed(last') /\ last'.new_account
           /\ last'.phone = last.phone)
          => last'.result = "NumberAlreadyExists"]_vars

\* C6 witness: an account without a record of its own was refused a phone
\* that another account holds.
C6_Witness ==
    /\ last.op = "register" /\ last.new_account
    /\ last.result = "NumberAlreadyExists"
    /\ last.origin \in Accounts
    /\ last.origin \notin DOMAIN PhoneLookUp
    /\ last.phone \in DOMAIN AccountLookUp
    /\ AccountLookUp[last.phone].owner # last.origin

\* C7: privacy gate: look_up of a phone whose AccountLookUp record is not
\* public returns NumberNotPublic, reverse_look_up of an account whose
\* PhoneLookUp record is not public returns NumberNotPublic, and neither
\* call emits the owner or the phone of any stored record that is not public.
C7_PrivacyGate ==
    [][/\ (/\ last'.op = "look_up" /\ Signed(last')
           /\ last'.phone \in DOMAIN AccountLookUp
           /\ ~AccountLookUp[last'.phone].public)
          => last'.result = "NumberNotPublic"
       /\ (/\ last'.op = "reverse_look_up" /\ Signed(last')
           /\ last'.account \in DOMAIN PhoneLookUp
           /\ ~PhoneLookUp[last'.account].public)
          => last'.result = "NumberNotPublic"
       /\ (last'.op = "look_up" /\ last'.event # NoEvent)
          => \A r \in StoredRecords : r.owner = last'.event[2] => r.public
       /\ (last'.op = "reverse_look_up" /\ last'.event # NoEvent)
          => \A r \in StoredRecords : r.phone = last'.event[2] => r.public]_vars

\* C8: round trip: directly after a successful register(A, X, public = true,
\* new_account = true), look_up(X) by any account returns Ok with
\* AccountFound(A) and reverse_look_up(A) by any account returns Ok with
\* LookUpSuccess(X).
C8_RoundTrip ==
    [][(/\ last.op = "register" /\ last.result = Ok
        /\ last.public /\ last.new_account) =>
          /\ (/\ last'.op = "look_up" /\ Signed(last')
              /\ last'.phone = last.phone)
             => /\ last'.result = Ok
                /\ last'.event = <<"AccountFound", last.origin>>
          /\ (/\ last'.op = "reverse_look_up" /\ Signed(last')
              /\ last'.account = last.origin)
             => /\ last'.result = Ok
                /\ last'.event = <<"LookUpSuccess", last.phone>>]_vars

\* C8 witness: a public new registration has just succeeded and both lookups
\* made from this state by another account find it.
C8_Witness ==
    /\ last.op = "register" /\ last.result = Ok
    /\ last.public /\ last.new_account
    /\ \E c \in Accounts \ {last.origin} :
          /\ look_up_fn(PhoneLookUp, AccountLookUp, c, last.phone).event
                = <<"AccountFound", last.origin>>
          /\ reverse_look_up_fn(PhoneLookUp, AccountLookUp, c, last.origin).event
                = <<"LookUpSuccess", last.phone>>

\* C9: length boundary: register by a signed account returns NumberTooShort
\* when the phone is shorter than the minimum and NumberTooLong when it is
\* longer than the maximum, whatever new_account and the maps are; a phone of
\* a length from the minimum to the maximum, both included, passes the length
\* check, and register returns Ok when the existence preconditions hold.
C9_LengthBoundary ==
    [][(last'.op = "register" /\ Signed(last')) =>
          /\ Len(last'.phone) < NumberMinLength
                => last'.result = "NumberTooShort"
          /\ Len(last'.phone) > NumberMaxLength
                => last'.result = "NumberTooLong"
          /\ InRange(last'.phone)
                => /\ last'.result \notin {"NumberTooShort", "NumberTooLong"}
                   /\ (/\ last'.new_account
                       /\ last'.origin \notin DOMAIN PhoneLookUp
                       /\ last'.phone \notin DOMAIN AccountLookUp)
                      => last'.result = Ok
                   /\ (/\ ~last'.new_account
                       /\ last'.origin \in DOMAIN PhoneLookUp
                       /\ last'.phone \in DOMAIN AccountLookUp)
                      => last'.result = Ok]_vars

\* C9 witness: a phone of exactly the minimum length has just been
\* registered while one of exactly the maximum length is registered too.
C9_Witness ==
    /\ last.op = "register" /\ last.result = Ok
    /\ Len(last.phone) = NumberMinLength
    /\ \E p \in DOMAIN AccountLookUp : Len(p) = NumberMaxLength

\* C10: length invariant (I3): every AccountLookUp key and every phone held
\* in a record of either map has a length within the configured range.
C10_LengthInvariant ==
    /\ \A p \in DOMAIN AccountLookUp : InRange(p)
    /\ \A r \in StoredRecords : InRange(r.phone)

\* C10 witness: both maps hold records, with phones of the minimum and of
\* the maximum length, one of them rewritten by allow_tranfer.
C10_Witness ==
    /\ \E p \in DOMAIN AccountLookUp : Len(p) = NumberMinLength
    /\ \E p \in DOMAIN AccountLookUp : Len(p) = NumberMaxLength
    /\ \E k \in DOMAIN PhoneLookUp : PhoneLookUp[k].transferable

\* C11: clear then re-register: a successful clear_data by account A whose
\* PhoneLookUp record carried phone X leaves PhoneLookUp without A and
\* AccountLookUp without X, so that register(A, X, any public,
\* new_account = true) dispatched from the state it leaves returns Ok; and a
\* register(A, Y, new_account = true) that directly follows it returns Ok
\* for every phone Y in range that AccountLookUp does not hold.
C11_ClearThenReRegister ==
    [][/\ (last'.op = "clear_data" /\ last'.result = Ok) =>
             LET A == last'.origin
                 X == PhoneLookUp[A].phone
             IN  /\ A \notin DOMAIN PhoneLookUp'
                 /\ X \notin DOMAIN AccountLookUp'
                 /\ \A public \in BOOLEAN :
                       register_fn(PhoneLookUp', AccountLookUp', A, X,
                                   public, TRUE).result = Ok
       /\ (/\ last.op = "clear_data" /\ last.result = Ok
           /\ last'.op = "register" /\ last'.origin = last.origin
           /\ last'.new_account /\ InRange(last'.phone)
           /\ last'.phone \notin DOMAIN AccountLookUp)
          => last'.result = Ok]_vars

\* C11 witness: an account has just cleared its record while another account
\* still holds one, and a new registration by it would be accepted.
C11_Witness ==
    /\ last.op = "clear_data" /\ last.result = Ok
    /\ last.origin \notin DOMAIN PhoneLookUp
    /\ DOMAIN PhoneLookUp # {}
    /\ \E X \in Phones \ DOMAIN AccountLookUp :
          register_fn(PhoneLookUp, AccountLookUp, last.origin, X,
                      TRUE, TRUE).result = Ok

\* C12: read-only lookups: look_up, reverse_look_up and account_data leave
\* both maps unchanged, whether they return Ok or an error.
C12_ReadOnlyLookups ==
    [][last'.op \in {"look_up", "reverse_look_up", "account_data"} =>
          /\ PhoneLookUp' = PhoneLookUp
          /\ AccountLookUp' = AccountLookUp]_vars

\* C12 witness: a look_up has just found a public record.
C12_Witness ==
    /\ last.op = "look_up" /\ last.result = Ok
    /\ last.phone \in DOMAIN AccountLookUp
    /\ last.event = <<"AccountFound", AccountLookUp[last.phone].owner>>

\* C13: transfer gating: while the configuration flag Transfer is false,
\* every allow_tranfer and every tranfer call fails, and no stored record
\* has transferable = true.
C13_TransferGating ==
    ~Transfer =>
       /\ last.op \in {"allow_tranfer", "tranfer"} => last.result # Ok
       /\ \A r \in StoredRecords : ~r.transferable

\* C14: transfer effect: tranfer(recipient) by a signed account returns Ok
\* only if the recipient's record has transferable = true, and after it
\* returned Ok the transferred phone's record has owner = recipient and
\* transferable = false in both maps, and the caller no longer holds it.
C14_TransferEffect ==
    [][(last'.op = "tranfer" /\ Signed(last') /\ last'.result = Ok) =>
          LET caller    == last'.origin
              recipient == last'.account
          IN  /\ recipient \in DOMAIN PhoneLookUp
              /\ PhoneLookUp[recipient].transferable
              /\ caller \in DOMAIN PhoneLookUp
              /\ LET X == PhoneLookUp[caller].phone
                 IN  /\ recipient \in DOMAIN PhoneLookUp'
                     /\ PhoneLookUp'[recipient].phone = X
                     /\ PhoneLookUp'[recipient].owner = recipient
                     /\ ~PhoneLookUp'[recipient].transferable
                     /\ X \in DOMAIN AccountLookUp'
                     /\ AccountLookUp'[X].owner = recipient
                     /\ ~AccountLookUp'[X].transferable
                     /\ (caller # recipient =>
                            \/ caller \notin DOMAIN PhoneLookUp'
                            \/ PhoneLookUp'[caller].phone # X)]_vars

\* C15: clear_data precondition: clear_data by a signed account A removes
\* entries only when PhoneLookUp has a record for A and AccountLookUp holds
\* the identical record under that record's phone; in every other state it
\* returns an error and both maps keep every entry.
C15_ClearPrecondition ==
    [][(last'.op = "clear_data" /\ Signed(last')) =>
          LET A == last'.origin
          IN  \/ /\ A \in DOMAIN PhoneLookUp
                 /\ PhoneLookUp[A].phone \in DOMAIN AccountLookUp
                 /\ AccountLookUp[PhoneLookUp[A].phone] = PhoneLookUp[A]
              \/ /\ last'.result # Ok
                 /\ PhoneLookUp' = PhoneLookUp
                 /\ AccountLookUp' = AccountLookUp]_vars

\* the record register(A, X, p, _) writes, as the claim C16 states it
C16_Written(c) ==
    [owner |-> c.origin, public |-> c.public, transferable |-> FALSE,
     phone |-> c.phone]

\* C16 as stated: after a successful register(A, X, p, any new_account) both
\* PhoneLookUp[A] and AccountLookUp[X] equal {A, p, transferable = false, X};
\* and register with new_account = false returns NumberDoesNotExist unless
\* PhoneLookUp has A and AccountLookUp has X.
C16_RegisterPostState ==
    [][(last'.op = "register" /\ Signed(last')) =>
          /\ last'.result = Ok =>
                /\ last'.origin \in DOMAIN PhoneLookUp'
                /\ PhoneLookUp'[last'.origin] = C16_Written(last')
                /\ last'.phone \in DOMAIN AccountLookUp'
                /\ AccountLookUp'[last'.phone] = C16_Written(last')
          /\ (/\ ~last'.new_account
              /\ ~(/\ last'.origin \in DOMAIN PhoneLookUp
                   /\ last'.phone \in DOMAIN AccountLookUp))
             => last'.result = "NumberDoesNotExist"]_vars

\* C16 amended: the same post-state; and register with new_account = false
\* and a phone whose length is in range returns NumberDoesNotExist unless
\* PhoneLookUp has A and AccountLookUp has X.
C16_RegisterPostStateInRange ==
    [][(last'.op = "register" /\ Signed(last')) =>
          /\ last'.result = Ok =>
                /\ last'.origin \in DOMAIN PhoneLookUp'
                /\ PhoneLookUp'[last'.origin] = C16_Written(last')
                /\ last'.phone \in DOMAIN AccountLookUp'
                /\ AccountLookUp'[last'.phone] = C16_Written(last')
          /\ (/\ ~last'.new_account
              /\ InRange(last'.phone)
              /\ ~(/\ last'.origin \in DOMAIN PhoneLookUp
                   /\ last'.phone \in DOMAIN AccountLookUp))
             => last'.result = "NumberDoesNotExist"]_vars

\* C16 witness: an account that holds a record was refused a re-registration
\* (new_account = false) of a phone in range that AccountLookUp lacks.
C16_Witness ==
    /\ last.op = "register" /\ ~last.new_account
    /\ last.result = "NumberDoesNotExist"
    /\ last.origin \in DOMAIN PhoneLookUp
    /\ InRange(last.phone)
    /\ last.phone \notin DOMAIN AccountLookUp

\* C17: allow_tranfer frame: a successful allow_tranfer by account A changes
\* only the transferable flag, to true, of PhoneLookUp[A] and of the
\* AccountLookUp entry under that record's phone; owner, public and phone of
\* both entries and every other entry of both maps are unchanged; a second
\* call leaves both maps unchanged.
C17_GrantFrame ==
    [][(last'.op = "allow_tranfer" /\ last'.result = Ok) =>
          LET A == last'.origin
              X == PhoneLookUp[A].phone
          IN  /\ DOMAIN PhoneLookUp' = DOMAIN PhoneLookUp
              /\ DOMAIN AccountLookUp' = DOMAIN AccountLookUp
              /\ PhoneLookUp'[A] =
                    [PhoneLookUp[A] EXCEPT !.transferable = TRUE]
              /\ AccountLookUp'[X] =
                    [AccountLookUp[X] EXCEPT !.transferable = TRUE]
              /\ \A k \in (DOMAIN PhoneLookUp) \ {A} :
                    PhoneLookUp'[k] = PhoneLookUp[k]
              /\ \A p \in (DOMAIN AccountLookUp) \ {X} :
                    AccountLookUp'[p] = AccountLookUp[p]
              /\ LET again == allow_tranfer_fn(PhoneLookUp', AccountLookUp', A)
                 IN  /\ again.pl = PhoneLookUp'
                     /\ again.al = AccountLookUp']_vars

C19_KeyConsistency ==
    /\ \A k \in DOMAIN PhoneLookUp : PhoneLookUp[k].owner = k
    /\ \A p \in DOMAIN AccountLookUp : AccountLookUp[p].phone = p

\* C19 witness: the two maps disagree (an account's phone is held under
\* another owner) and allow_tranfer has just rewritten both of them.
C19_Witness ==
    /\ last.op = "allow_tranfer" /\ last.result = Ok
    /\ \E k \in DOMAIN PhoneLookUp :
          /\ PhoneLookUp[k].phone \in DOMAIN AccountLookUp
          /\ AccountLookUp[PhoneLookUp[k].phone].owner # k

\* C20: transferable provenance: the transferable flag of PhoneLookUp[A]
\* turns true only in a successful allow_tranfer called by A itself, and it
\* is false right after every successful register by A; hence it is true
\* only if A called allow_tranfer successfully after its latest register.
C20_TransferableProvenance ==
    [][/\ \A A \in Accounts :
             (/\ A \in DOMAIN PhoneLookUp'
              /\ PhoneLookUp'[A].transferable
              /\ ~(A \in DOMAIN PhoneLookUp /\ PhoneLookUp[A].transferable))
             => /\ last'.op = "allow_tranfer"
                /\ last'.origin = A
                /\ last'.result = Ok
       /\ (last'.op = "register" /\ last'.result = Ok)
             => ~PhoneLookUp'[last'.origin].transferable]_vars

\* C20 witness: an account re-registered after its grant and its flag is
\* false again, while the other account's flag, granted by itself, is true.
C20_Witness ==
    /\ last.op = "register" /\ last.result = Ok /\ ~last.new_account
    /\ ~PhoneLookUp[last.origin].transferable
    /\ \E B \in (DOMAIN PhoneLookUp) \ {last.origin} :
          PhoneLookUp[B].transferable

====
